---------------------------- MODULE Spec2Model ----------------------------
(***************************************************************************)
(* A model of ipinfo_lite.py: the record classifier (IPInfo), the scan     *)
(* loop and the output phase of extract_ip_networks, save_zone_file, and   *)
(* the collapsing of a group by ipaddress.collapse_addresses.              *)
(*                                                                         *)
(* Strings are sequences of one-character strings, so that str.lower and   *)
(* the regular expression search are computed and not assumed.  An address *)
(* is a natural number of AddrBits bits; a network is a record             *)
(* [version, addr, plen].                                                  *)
(***************************************************************************)
EXTENDS Integers, Sequences, FiniteSets, TLC

(***************************************************************************)
(* Bounds of the model.                                                    *)
(***************************************************************************)
\* width of an address in bits (32 for IPv4 and 128 for IPv6 in Python)
AddrBits == 2
\* largest number of records the database reader yields in one run
MaxRecords == 3
\* largest set of networks handed to collapse_addresses on its own
MaxSet == 3
\* longest sequence of networks handed to save_zone_file on its own
MaxSeq == 2

(***************************************************************************)
(* Networks: ipaddress.IPv4Network / ipaddress.IPv6Network.                *)
(***************************************************************************)
Versions == {4, 6}

max_prefixlen(version) == AddrBits

ALL_ONES(version) == 2^max_prefixlen(version) - 1

Net(version, addr, plen) == [version |-> version, addr |-> addr, plen |-> plen]

\* number of addresses of a block of the given prefix length
BlockSize(version, plen) == 2^(max_prefixlen(version) - plen)

\* every well-formed network of one version
NetworksOf(version) ==
    { n \in [version : {version}, addr : 0..ALL_ONES(version),
             plen : 0..max_prefixlen(version)] :
        n.addr % BlockSize(version, n.plen) = 0 }

broadcast_address(net) == net.addr + BlockSize(net.version, net.plen) - 1

\* the addresses a network holds
Addresses(net) == net.addr .. broadcast_address(net)

\* _BaseNetwork.supernet(): the network itself when the prefix length is 0
supernet(net) ==
    IF net.plen = 0 THEN net
    ELSE Net(net.version,
             net.addr - (net.addr % BlockSize(net.version, net.plen - 1)),
             net.plen - 1)

\* _BaseNetwork.__lt__: by network address, then by netmask
net_lt(a, b) == \/ a.addr < b.addr
                \/ a.addr = b.addr /\ a.plen < b.plen

\* sorted(): a set of networks in ascending order
RECURSIVE sorted(_)
sorted(S) ==
    IF S = {} THEN << >>
    ELSE LET m == CHOOSE x \in S : \A y \in S \ {x} : net_lt(x, y)
         IN  << m >> \o sorted(S \ {m})

RECURSIVE bit_length(_)
bit_length(k) == IF k = 0 THEN 0 ELSE 1 + bit_length(k \div 2)

RECURSIVE trailing_zero_bits(_)
trailing_zero_bits(k) == IF k % 2 = 1 THEN 0 ELSE 1 + trailing_zero_bits(k \div 2)

Min(a, b) == IF a <= b THEN a ELSE b

_count_righthand_zero_bits(number, bits) ==
    IF number = 0 THEN bits ELSE Min(bits, trailing_zero_bits(number))

\* summarize_address_range(first, last): the blocks covering first..last
RECURSIVE summarize_address_range(_, _, _)
summarize_address_range(version, first_int, last_int) ==
    IF first_int > last_int THEN << >>
    ELSE LET ip_bits == max_prefixlen(version)
             nbits == Min(_count_righthand_zero_bits(first_int, ip_bits),
                          bit_length(last_int - first_int + 1) - 1)
             net == Net(version, first_int, ip_bits - nbits)
             next_int == first_int + 2^nbits
         IN  IF next_int - 1 = ALL_ONES(version) THEN << net >>
             ELSE << net >> \o summarize_address_range(version, next_int, last_int)

\* _find_address_range(addresses): the runs of consecutive addresses of a
\* sorted, deduplicated sequence, as pairs <<first, last>>
RECURSIVE _find_address_range(_, _, _, _)
_find_address_range(ips, i, first, last) ==
    IF i > Len(ips) THEN << <<first, last>> >>
    ELSE IF ips[i] # last + 1
         THEN << <<first, last>> >> \o _find_address_range(ips, i + 1, ips[i], ips[i])
         ELSE _find_address_range(ips, i + 1, first, ips[i])

RECURSIVE sorted_ints(_)
sorted_ints(S) ==
    IF S = {} THEN << >>
    ELSE LET m == CHOOSE x \in S : \A y \in S : x <= y
         IN  << m >> \o sorted_ints(S \ {m})

\* a faulty variant of the first loop: two consecutive subnets are dropped
\* and their supernet is not put back on to_merge
RECURSIVE merge_loop_DropMerged(_, _)
merge_loop_DropMerged(to_merge, subnets) ==
    IF to_merge = << >> THEN subnets
    ELSE LET net == to_merge[Len(to_merge)]
             rest == SubSeq(to_merge, 1, Len(to_merge) - 1)
             sup == supernet(net)
         IN  IF sup \notin DOMAIN subnets
                 THEN merge_loop_DropMerged(rest, (sup :> net) @@ subnets)
             ELSE IF subnets[sup] # net
                 THEN merge_loop_DropMerged(rest,
                                 [k \in DOMAIN subnets \ {sup} |-> subnets[k]])
             ELSE merge_loop_DropMerged(rest, subnets)

\* the first loop of _collapse_addresses_internal: to_merge is a list popped
\* from its end, subnets a dict from a supernet to the one subnet kept for it
RECURSIVE merge_loop(_, _)
merge_loop(to_merge, subnets) ==
    IF to_merge = << >> THEN subnets
    ELSE LET net == to_merge[Len(to_merge)]
             rest == SubSeq(to_merge, 1, Len(to_merge) - 1)
             sup == supernet(net)
         IN  IF sup \notin DOMAIN subnets
                 THEN merge_loop(rest, (sup :> net) @@ subnets)
             ELSE IF subnets[sup] # net
                 THEN merge_loop(rest \o << sup >>,
                                 [k \in DOMAIN subnets \ {sup} |-> subnets[k]])
             ELSE merge_loop(rest, subnets)

\* a faulty variant of the second loop: it yields every network, subsumed
\* or not
RECURSIVE skip_subsumed_KeepAll(_, _, _, _)
skip_subsumed_KeepAll(nets, i, has_last, last) ==
    IF i > Len(nets) THEN << >>
    ELSE << nets[i] >> \o skip_subsumed_KeepAll(nets, i + 1, TRUE, nets[i])

\* the second loop of _collapse_addresses_internal: the sorted networks,
\* skipping those the last yielded network subsumes
RECURSIVE skip_subsumed(_, _, _, _)
skip_subsumed(nets, i, has_last, last) ==
    IF i > Len(nets) THEN << >>
    ELSE IF has_last /\ broadcast_address(last) >= broadcast_address(nets[i])
         THEN skip_subsumed(nets, i + 1, has_last, last)
         ELSE << nets[i] >> \o skip_subsumed(nets, i + 1, TRUE, nets[i])

EmptyDict == [k \in {} |-> 0]

_collapse_addresses_internal(addresses) ==
    LET subnets == merge_loop(addresses, EmptyDict)
        values == { subnets[k] : k \in DOMAIN subnets }
        s == sorted(values)
    IN  IF s = << >> THEN << >> ELSE skip_subsumed(s, 1, FALSE, s[1])

RECURSIVE summarize_ranges(_, _, _)
summarize_ranges(version, ranges, i) ==
    IF i > Len(ranges) THEN << >>
    ELSE summarize_address_range(version, ranges[i][1], ranges[i][2])
             \o summarize_ranges(version, ranges, i + 1)

\* ipaddress.collapse_addresses(addresses), addresses in iteration order:
\* the single-address networks go through summarize_address_range, the
\* others are taken as they are
collapse_addresses(addresses) ==
    LET idx == 1..Len(addresses)
        isHost(n) == n.plen = max_prefixlen(n.version)
        ips == sorted_ints({ addresses[i].addr : i \in { j \in idx : isHost(addresses[j]) } })
        nets == SelectSeq(addresses, LAMBDA n : ~isHost(n))
        addrs == IF ips = << >> THEN << >>
                 ELSE summarize_ranges(addresses[1].version,
                                       _find_address_range(ips, 2, ips[1], ips[1]), 1)
    IN  _collapse_addresses_internal(addrs \o nets)

\* the orders in which a set can be iterated
Orders(S) ==
    { s \in [1..Cardinality(S) -> S] : \A i, j \in DOMAIN s : i # j => s[i] # s[j] }


(***************************************************************************)
(* Strings and the values a database record can hold.                      *)
(***************************************************************************)
UpperLetters ==
    <<"A", "B", "C", "D", "E", "F", "G", "H", "I", "J", "K", "L", "M",
      "N", "O", "P", "Q", "R", "S", "T", "U", "V", "W", "X", "Y", "Z">>

LowerLetters ==
    <<"a", "b", "c", "d", "e", "f", "g", "h", "i", "j", "k", "l", "m",
      "n", "o", "p", "q", "r", "s", "t", "u", "v", "w", "x", "y", "z">>

Digits == {"0", "1", "2", "3", "4", "5", "6", "7", "8", "9"}

\* the lower-case letter of each upper-case letter, and the converse
ToLower ==
    [c \in { UpperLetters[i] : i \in DOMAIN UpperLetters } |->
        LowerLetters[CHOOSE i \in DOMAIN UpperLetters : UpperLetters[i] = c]]

ToUpper ==
    [c \in { LowerLetters[i] : i \in DOMAIN LowerLetters } |->
        UpperLetters[CHOOSE i \in DOMAIN LowerLetters : LowerLetters[i] = c]]

lower_char(c) == IF c \in DOMAIN ToLower THEN ToLower[c] ELSE c

upper_char(c) == IF c \in DOMAIN ToUpper THEN ToUpper[c] ELSE c

\* str.lower()
lower(s) == [i \in DOMAIN s |-> lower_char(s[i])]

\* str.upper()
upper(s) == [i \in DOMAIN s |-> upper_char(s[i])]

\* a character the regular expression class \w matches
is_word_char(c) ==
    \/ c \in DOMAIN ToLower
    \/ c \in DOMAIN ToUpper
    \/ c \in Digits
    \/ c = "_"

\* a value of a record: a string, or something that is not one (an integer,
\* hashable and true; a list, unhashable and true)
Str(s) == [t |-> "str", s |-> s]
AnInt == [t |-> "int", s |-> << >>]
AList == [t |-> "list", s |-> << >>]

\* the default of every field of IPInfo
EmptyStr == Str(<< >>)

(***************************************************************************)
(* The rule table and the keyword pattern.                                 *)
(***************************************************************************)
AsDomain(domain, is_filter, use_as_name) ==
    [domain |-> domain, is_filter |-> is_filter, use_as_name |-> use_as_name]

AS_DOMAINS ==
    << AsDomain(<<"1", "0", "0", "8", "6", ".", "c", "n">>, TRUE, FALSE),
       AsDomain(<<"c", "h", "i", "n", "a", "m", "o", "b", "i", "l", "e", ".", "c", "o", "m">>, TRUE, FALSE),
       AsDomain(<<"c", "h", "i", "n", "a", "u", "n", "i", "c", "o", "m", ".", "c", "n">>, TRUE, FALSE),
       AsDomain(<<"1", "8", "9", ".", "c", "n">>, TRUE, FALSE),
       AsDomain(<<"c", "h", "i", "n", "a", "t", "e", "l", "e", "c", "o", "m", ".", "c", "n">>, TRUE, TRUE),
       AsDomain(<<"c", "h", "i", "n", "a", "t", "e", "l", "e", "c", "o", "m", ".", "c", "o", "m", ".", "c", "n">>, TRUE, TRUE),
       AsDomain(<<"3", "6", "0", ".", "c", "n">>, TRUE, FALSE),
       AsDomain(<<"3", "6", "0", ".", "n", "e", "t">>, TRUE, FALSE),
       AsDomain(<<"b", "a", "i", "d", "u", ".", "c", "o", "m">>, TRUE, FALSE),
       AsDomain(<<"q", "q", ".", "c", "o", "m">>, TRUE, FALSE),
       AsDomain(<<"t", "e", "n", "c", "e", "n", "t", ".", "c", "o", "m">>, TRUE, FALSE),
       AsDomain(<<"h", "u", "a", "w", "e", "i", ".", "c", "o", "m">>, TRUE, FALSE),
       AsDomain(<<"h", "u", "a", "w", "e", "i", "c", "l", "o", "u", "d", ".", "c", "o", "m">>, TRUE, FALSE),
       AsDomain(<<"a", "l", "i", "b", "a", "b", "a", "c", "l", "o", "u", "d", ".", "c", "o", "m">>, TRUE, FALSE),
       AsDomain(<<"a", "l", "i", "b", "a", "b", "a", "g", "r", "o", "u", "p", ".", "c", "o", "m">>, TRUE, FALSE),
       AsDomain(<<"b", "y", "t", "e", "d", "a", "n", "c", "e", ".", "c", "o", "m">>, TRUE, FALSE),
       AsDomain(<<"v", "o", "l", "c", "e", "n", "g", "i", "n", "e", ".", "c", "o", "m">>, TRUE, FALSE) >>

\* the dict {v.domain: v for v in AS_DOMAINS}: a later entry of a domain wins
AS_DOMAIN_KV ==
    [d \in { AS_DOMAINS[i].domain : i \in DOMAIN AS_DOMAINS } |->
        AS_DOMAINS[CHOOSE i \in DOMAIN AS_DOMAINS :
                     /\ AS_DOMAINS[i].domain = d
                     /\ \A j \in DOMAIN AS_DOMAINS : AS_DOMAINS[j].domain = d => j <= i]]

AS_NAME_KEYWORDS ==
    << <<"B", "e", "i", "j", "i", "n", "g">>,
       <<"T", "i", "a", "n", "j", "i", "n">>,
       <<"H", "e", "b", "e", "i">>,
       <<"J", "i", "a", "n", "g", "s", "u">>,
       <<"N", "a", "n", "j", "i", "n", "g">>,
       <<"S", "i", "c", "h", "u", "a", "n">>,
       <<"S", "H", "A", "A", "N", "X", "I">>,
       <<"X", "i", "a", "m", "e", "n">>,
       <<"S", "h", "a", "n", "d", "o", "n", "g">>,
       <<"Q", "i", "n", "g", "d", "a", "o">>,
       <<"J", "i", "n", "a", "n">>,
       <<"G", "u", "i", "z", "h", "o", "u">>,
       <<"G", "u", "a", "n", "g", "d", "o", "n", "g">>,
       <<"N", "I", "N", "G", "X", "I", "A">>,
       <<"Y", "u", "n", "n", "a", "n">>,
       <<"C", "l", "o", "u", "d", " ", "C", "o", "m", "p", "u", "t", "i", "n", "g", " ",
         "C", "o", "r", "p", "o", "r", "a", "t", "i", "o", "n">> >>

\* The pattern is the text \b, the escaped keywords joined by |, and \b.
\* Alternation binds loosest, so the pattern is a choice of branches of
\* which the first begins with \b and the last ends with \b: a branch is
\* [left, lit, right], the assertions it holds around its literal.
REGEX_AS_NAME ==
    [i \in DOMAIN AS_NAME_KEYWORDS |->
        [left |-> i = 1,
         lit |-> AS_NAME_KEYWORDS[i],
         right |-> i = Len(AS_NAME_KEYWORDS)]]

\* \b at the place before text[pos] (pos in 1..Len(text)+1)
word_boundary(text, pos) ==
    LET before == pos > 1 /\ is_word_char(text[pos - 1])
        after == pos <= Len(text) /\ is_word_char(text[pos])
    IN  before # after

\* the literal lit matches text at pos, ignoring case (re.I)
literal_at(text, pos, lit) ==
    /\ pos + Len(lit) - 1 <= Len(text)
    /\ \A j \in DOMAIN lit : lower_char(text[pos + j - 1]) = lower_char(lit[j])

branch_at(text, pos, branch) ==
    /\ branch.left => word_boundary(text, pos)
    /\ literal_at(text, pos, branch.lit)
    /\ branch.right => word_boundary(text, pos + Len(branch.lit))

\* bool(REGEX_AS_NAME.search(text)) for a string text
regex_search(pattern, text) ==
    \E pos \in 1..(Len(text) + 1) : \E b \in DOMAIN pattern :
        branch_at(text, pos, pattern[b])

(***************************************************************************)
(* IPInfo.                                                                 *)
(***************************************************************************)
\* the fields of the dataclass
IPInfoFields ==
    {"continent", "continent_code", "country", "country_code",
     "as_domain", "as_name", "asn"}

\* a record of the database: a dict (a function from its keys), or a value
\* that is not a dict
Dict(items) == [t |-> "dict", items |-> items]
NotADict == [t |-> "str", items |-> EmptyDict]

\* IPInfo.from_dict raises (data.items() of a value that is no dict)
from_dict_raises(data) == data.t # "dict"

\* IPInfo.from_dict: the recognized keys, the other fields at their default
from_dict(data) ==
    LET items == [k \in DOMAIN data.items \cap IPInfoFields |-> data.items[k]]
    IN  [f \in IPInfoFields |-> IF f \in DOMAIN items THEN items[f] ELSE EmptyStr]

\* a faulty variant of is_cn: the comparison ignores case
is_cn_AnyCase(ip) ==
    ip.country_code.t = "str" /\ lower(ip.country_code.s) = <<"c", "n">>

is_cn(ip) == ip.country_code = Str(<<"C", "N">>)

\* truth of a value: a non-empty string; the integer and the list are true
truthy(v) == v.t # "str" \/ v.s # << >>

\* IPInfo.is_filter_domain raises: the dict lookup of an unhashable domain,
\* or the pattern search of an as_name that is no string
is_filter_domain_raises(ip) ==
    /\ truthy(ip.as_domain)
    /\ \/ ip.as_domain.t = "list"
       \/ /\ ip.as_domain.t = "str"
          /\ ip.as_domain.s \in DOMAIN AS_DOMAIN_KV
          /\ AS_DOMAIN_KV[ip.as_domain.s].is_filter
          /\ AS_DOMAIN_KV[ip.as_domain.s].use_as_name
          /\ ip.as_name.t # "str"

\* IPInfo.is_filter_domain, when it does not raise
is_filter_domain(ip) ==
    IF truthy(ip.as_domain)
    THEN IF /\ ip.as_domain.t = "str"
            /\ ip.as_domain.s \in DOMAIN AS_DOMAIN_KV
            /\ AS_DOMAIN_KV[ip.as_domain.s].is_filter
         THEN IF AS_DOMAIN_KV[ip.as_domain.s].use_as_name
              THEN regex_search(REGEX_AS_NAME, ip.as_name.s)
              ELSE TRUE
         ELSE FALSE
    ELSE FALSE


(***************************************************************************)
(* Zone files.                                                             *)
(***************************************************************************)
\* str(net): the text of the address, which shows its family, a slash and
\* the prefix length
format_net(net) ==
    << IF net.version = 4 THEN "dotted" ELSE "colons", net.addr, "/", net.plen >>

PyNone == [t |-> "None", v |-> 0]
PyInt(k) == [t |-> "int", v |-> k]

\* the loop of save_zone_file over networks: the lines written to f and
\* the count of them
RECURSIVE write_loop(_, _, _)
write_loop(networks, f, count) ==
    IF networks = << >> THEN [f |-> f, count |-> count]
    ELSE write_loop(Tail(networks), Append(f, format_net(Head(networks))), count + 1)

\* a faulty variant of save_zone_file: the file is opened for appending
save_zone_file_Append(files, zone_file, networks) ==
    LET old == IF zone_file \in DOMAIN files THEN files[zone_file] ELSE << >>
        w == write_loop(networks, old, 0)
    IN  [fs |-> (zone_file :> w.f) @@ files,
         log |-> [count |-> w.count, zone_file |-> zone_file],
         ret |-> PyNone]

\* save_zone_file(zone_file, networks) on the files `files`, when nothing
\* raises: the file is opened with "w", one line is written per network, the
\* count is logged, and the function returns None
save_zone_file(files, zone_file, networks) ==
    LET w == write_loop(networks, << >>, 0)
    IN  [fs |-> (zone_file :> w.f) @@ files,
         log |-> [count |-> w.count, zone_file |-> zone_file],
         ret |-> PyNone]

\* a faulty variant of copyfileobj: the destination is overwritten
copyfileobj_Overwrite(src, dst) == src

\* shutil.copyfileobj(src, dst): the lines of src written at the end of dst
copyfileobj(src, dst) == dst \o src

(***************************************************************************)
(* The groups and the body of the scan loop.                               *)
(***************************************************************************)
\* defaultdict(lambda: defaultdict(set)): the keys in insertion order, and
\* for each key a dict from "ipv4" / "ipv6" to a set of networks
EmptyGroups == [keys |-> << >>, val |-> EmptyDict]

\* a faulty variant of the insertion: the set is replaced, not added to
add_network_Replace(groups, key, ipv, net) ==
    LET known == key \in DOMAIN groups.val
        inner == IF known THEN groups.val[key] ELSE EmptyDict
    IN  [keys |-> IF known THEN groups.keys ELSE Append(groups.keys, key),
         val |-> (key :> ((ipv :> {net}) @@ inner)) @@ groups.val]

\* groups[key][ipv].add(net)
add_network(groups, key, ipv, net) ==
    LET known == key \in DOMAIN groups.val
        inner == IF known THEN groups.val[key] ELSE EmptyDict
        old == IF ipv \in DOMAIN inner THEN inner[ipv] ELSE {}
    IN  [keys |-> IF known THEN groups.keys ELSE Append(groups.keys, key),
         val |-> (key :> ((ipv :> (old \cup {net})) @@ inner)) @@ groups.val]

\* ipaddress.ip_network(network) raises ValueError: the key is the text of
\* no address, or of a prefix too long, or of a network with host bits set
ip_network_raises(network) ==
    \/ network.version \notin Versions
    \/ network.addr > ALL_ONES(network.version)
    \/ network.plen > max_prefixlen(network.version)
    \/ network.addr % BlockSize(network.version, network.plen) # 0

ip_network(network) == Net(network.version, network.addr, network.plen)

\* f"ipv{net.version}"
ipv_of(net) == IF net.version = 4 THEN "ipv4" ELSE "ipv6"

\* an exception is raised inside the try block for this pair
scan_raises(network, record) ==
    \/ from_dict_raises(record)
    \/ /\ is_cn(from_dict(record))
       /\ \/ ip_network_raises(network)
          \/ is_filter_domain_raises(from_dict(record))

\* one iteration of the scan loop: the groups after it.  An exception
\* leaves the loop body where it is raised and the loop continues.
scan_body(cs, ds, network, record) ==
    IF from_dict_raises(record) THEN [countries |-> cs, domains |-> ds]
    ELSE LET ip == from_dict(record) IN
         IF ~is_cn(ip) THEN [countries |-> cs, domains |-> ds]
         ELSE IF ip_network_raises(network) THEN [countries |-> cs, domains |-> ds]
         ELSE LET net == ip_network(network)
                  ipv == ipv_of(net)
                  cs1 == add_network(cs, lower(ip.country_code.s), ipv, net)
              IN  IF is_filter_domain_raises(ip)
                      THEN [countries |-> cs1, domains |-> ds]
                  ELSE IF is_filter_domain(ip)
                      THEN [countries |-> cs1,
                            domains |-> add_network(ds, lower(ip.as_domain.s), ipv, net)]
                  ELSE [countries |-> cs1, domains |-> ds]

(***************************************************************************)
(* The state.                                                              *)
(***************************************************************************)
VARIABLES
    pc,         \* where the program is
    nread,      \* the number of records the reader has yielded
    network,    \* the loop variable network
    record,     \* the loop variable record
    countries,  \* the country groups
    domains,    \* the domain groups
    fs,         \* the files under DATA_DIR: a function from a path to its lines
    vi,         \* the index of version in ip_versions
    idx,        \* the index of the current item of countries / domains
    failed,     \* the paths whose writing raised
    log,        \* the last message of save_zone_file
    cnSeen,     \* the well-formed networks read with country_code "CN"
    call,       \* a function called on its own: its arguments
    ret         \* a function called on its own: what it returned

vars == << pc, nread, network, record, countries, domains, fs, vi, idx,
           failed, log, cnSeen, call, ret >>

ip_versions == << "ipv4", "ipv6" >>

NoNetwork == Net(0, 0, 0)
NoRecord == [t |-> "none", items |-> EmptyDict]
NoLog == [count |-> 0, zone_file |-> << >>]
NoCall == [fn |-> "none"]

(***************************************************************************)
(* What the database reader can yield.                                     *)
(***************************************************************************)
Half == 2^(AddrBits - 1)

\* two IPv4 halves, an IPv4 address inside the low half, a key with host
\* bits set, two IPv6 networks, and a key that is no network at all
NetworkKeys ==
    { Net(4, 0, 1), Net(4, Half, 1), Net(4, 1, AddrBits), Net(4, 1, 1),
      Net(6, 0, 1), Net(6, Half, AddrBits), NoNetwork }

Absent == [t |-> "absent", s |-> << >>]

\* the dict with the given values, a key left out when its value is Absent,
\* and a key that is no field of IPInfo
MkRecord(country_code, as_domain, as_name) ==
    LET all == [k \in {"country_code", "as_domain", "as_name", "network_type"} |->
                  CASE k = "country_code" -> country_code
                    [] k = "as_domain" -> as_domain
                    [] k = "as_name" -> as_name
                    [] OTHER -> Str(<<"x">>)]
    IN  Dict([k \in { x \in DOMAIN all : all[x] # Absent } |-> all[k]])

S_CN == <<"C", "N">>
S_cn == <<"c", "n">>
S_US == <<"U", "S">>
S_qq == <<"q", "q", ".", "c", "o", "m">>
S_chinatelecom == <<"c", "h", "i", "n", "a", "t", "e", "l", "e", "c", "o", "m", ".", "c", "n">>
S_chinatelecom_com == <<"c", "h", "i", "n", "a", "t", "e", "l", "e", "c", "o", "m", ".", "c", "o", "m", ".", "c", "n">>
S_example == <<"e", "x", "a", "m", "p", "l", "e", ".", "c", "o", "m">>
S_JiangsuTelecom == <<"J", "i", "a", "n", "g", "s", "u", " ", "T", "e", "l", "e", "c", "o", "m">>
S_NoProvinceISP == <<"N", "o", "-", "P", "r", "o", "v", "i", "n", "c", "e", "-", "I", "S", "P">>
S_Telecom == <<"T", "e", "l", "e", "c", "o", "m">>
S_aggregated == <<"a", "g", "g", "r", "e", "g", "a", "t", "e", "d">>

CountryCodes == { Str(S_CN), Str(S_cn), Str(S_US), Absent }

Records ==
    { NotADict } \cup
    { MkRecord(cc, d, nm) :
        cc \in CountryCodes,
        d \in { Absent, Str(S_qq), Str(upper(S_qq)), Str(S_chinatelecom), AList },
        nm \in { Str(S_JiangsuTelecom), Str(S_NoProvinceISP), AnInt } }

(***************************************************************************)
(* extract_ip_networks, after clean() has removed DATA_DIR.                *)
(***************************************************************************)
Init ==
    /\ pc = "scan"
    /\ nread = 0
    /\ network = NoNetwork
    /\ record = NoRecord
    /\ countries = EmptyGroups
    /\ domains = EmptyGroups
    /\ fs = EmptyDict
    /\ vi = 1
    /\ idx = 1
    /\ failed = {}
    /\ log = NoLog
    /\ cnSeen = {}
    /\ call = NoCall
    /\ ret = PyNone

\* the record is a dict whose country_code is the string "CN"
CarriesCN(r) ==
    /\ r.t = "dict"
    /\ "country_code" \in DOMAIN r.items
    /\ r.items["country_code"] = Str(S_CN)

\* the reader yields the next pair
ReaderYields ==
    /\ pc = "scan"
    /\ nread < MaxRecords
    /\ \E k \in NetworkKeys, r \in Records :
         /\ network' = k
         /\ record' = r
    /\ nread' = nread + 1
    /\ pc' = "body"
    /\ UNCHANGED << countries, domains, fs, vi, idx, failed, log, cnSeen, call, ret >>

\* the loop body runs on the pair; network and record are not read again
\* before the reader sets them anew
LoopBody ==
    /\ pc = "body"
    /\ LET out == scan_body(countries, domains, network, record) IN
         /\ countries' = out.countries
         /\ domains' = out.domains
    /\ cnSeen' = IF ~ip_network_raises(network) /\ CarriesCN(record)
                 THEN cnSeen \cup {ip_network(network)} ELSE cnSeen
    /\ network' = NoNetwork
    /\ record' = NoRecord
    /\ pc' = "scan"
    /\ UNCHANGED << nread, fs, vi, idx, failed, log, call, ret >>

\* the reader is exhausted
EndScan ==
    /\ pc = "scan"
    /\ pc' = "countries"
    /\ vi' = 1
    /\ idx' = 1
    /\ UNCHANGED << nread, network, record, countries, domains, fs, failed, log,
                    cnSeen, call, ret >>

version == ip_versions[vi]

\* DATA_DIR / kind / version / f"{stem}.zone"
zone_path(kind, v, stem) == << kind, v, stem >>

domain_aggregated_file == zone_path("domains", version, S_aggregated)

CountryKey == countries.keys[idx]
DomainKey == domains.keys[idx]

\* the country group of this version is collapsed and saved
SaveCountry ==
    /\ pc = "countries"
    /\ idx <= Len(countries.keys)
    /\ version \in DOMAIN countries.val[CountryKey]
    /\ \E order \in Orders(countries.val[CountryKey][version]) :
         LET r == save_zone_file(fs, zone_path("countries", version, CountryKey),
                                 collapse_addresses(order)) IN
         /\ fs' = r.fs
         /\ log' = r.log
    /\ idx' = idx + 1
    /\ UNCHANGED << pc, nread, network, record, countries, domains, vi, failed,
                    cnSeen, call, ret >>

\* save_zone_file raises (the directory or the file cannot be made): nothing
\* catches it and extract_ip_networks is left
SaveCountryFails ==
    /\ pc = "countries"
    /\ idx <= Len(countries.keys)
    /\ version \in DOMAIN countries.val[CountryKey]
    /\ pc' = "aborted"
    /\ failed' = failed \cup { zone_path("countries", version, CountryKey) }
    /\ UNCHANGED << nread, network, record, countries, domains, fs, vi, idx, log,
                    cnSeen, call, ret >>

\* the country has no network of this version
SkipCountry ==
    /\ pc = "countries"
    /\ idx <= Len(countries.keys)
    /\ version \notin DOMAIN countries.val[CountryKey]
    /\ idx' = idx + 1
    /\ UNCHANGED << pc, nread, network, record, countries, domains, fs, vi, failed,
                    log, cnSeen, call, ret >>

\* the aggregated file of this version is opened with "w"
OpenAggregated ==
    /\ pc = "countries"
    /\ idx > Len(countries.keys)
    /\ fs' = (domain_aggregated_file :> << >>) @@ fs
    /\ pc' = "domains"
    /\ idx' = 1
    /\ UNCHANGED << nread, network, record, countries, domains, vi, failed, log,
                    cnSeen, call, ret >>

OpenAggregatedFails ==
    /\ pc = "countries"
    /\ idx > Len(countries.keys)
    /\ pc' = "aborted"
    /\ failed' = failed \cup { domain_aggregated_file }
    /\ UNCHANGED << nread, network, record, countries, domains, fs, vi, idx, log,
                    cnSeen, call, ret >>

\* the domain group of this version is collapsed and saved, and its file is
\* copied to the end of the aggregated file
SaveDomain ==
    /\ pc = "domains"
    /\ idx <= Len(domains.keys)
    /\ version \in DOMAIN domains.val[DomainKey]
    /\ \E order \in Orders(domains.val[DomainKey][version]) :
         LET zone_file == zone_path("domains", version, DomainKey)
             r == save_zone_file(fs, zone_file, collapse_addresses(order)) IN
         /\ fs' = (domain_aggregated_file :>
                      copyfileobj(r.fs[zone_file], r.fs[domain_aggregated_file])) @@ r.fs
         /\ log' = r.log
    /\ idx' = idx + 1
    /\ UNCHANGED << pc, nread, network, record, countries, domains, vi, failed,
                    cnSeen, call, ret >>

SaveDomainFails ==
    /\ pc = "domains"
    /\ idx <= Len(domains.keys)
    /\ version \in DOMAIN domains.val[DomainKey]
    /\ pc' = "aborted"
    /\ failed' = failed \cup { zone_path("domains", version, DomainKey) }
    /\ UNCHANGED << nread, network, record, countries, domains, fs, vi, idx, log,
                    cnSeen, call, ret >>

SkipDomain ==
    /\ pc = "domains"
    /\ idx <= Len(domains.keys)
    /\ version \notin DOMAIN domains.val[DomainKey]
    /\ idx' = idx + 1
    /\ UNCHANGED << pc, nread, network, record, countries, domains, fs, vi, failed,
                    log, cnSeen, call, ret >>

\* the aggregated file is closed and the next version begins
NextVersion ==
    /\ pc = "domains"
    /\ idx > Len(domains.keys)
    /\ vi < Len(ip_versions)
    /\ vi' = vi + 1
    /\ pc' = "countries"
    /\ idx' = 1
    /\ UNCHANGED << nread, network, record, countries, domains, fs, failed, log,
                    cnSeen, call, ret >>

Finish ==
    /\ pc = "domains"
    /\ idx > Len(domains.keys)
    /\ vi = Len(ip_versions)
    /\ pc' = "done"
    /\ UNCHANGED << nread, network, record, countries, domains, fs, vi, idx, failed,
                    log, cnSeen, call, ret >>

Next ==
    \/ ReaderYields
    \/ LoopBody
    \/ EndScan
    \/ SaveCountry
    \/ SaveCountryFails
    \/ SkipCountry
    \/ OpenAggregated
    \/ OpenAggregatedFails
    \/ SaveDomain
    \/ SaveDomainFails
    \/ SkipDomain
    \/ NextVersion
    \/ Finish

Spec == Init /\ [][Next]_vars

(***************************************************************************)
(* The functions on their own: the arguments are drawn in the initial      *)
(* state and one step calls the function.                                  *)
(***************************************************************************)
\* the pipeline's variables, which a lone call leaves alone
Idle ==
    /\ nread = 0
    /\ network = NoNetwork
    /\ record = NoRecord
    /\ countries = EmptyGroups
    /\ domains = EmptyGroups
    /\ vi = 1
    /\ idx = 1
    /\ failed = {}
    /\ log = NoLog
    /\ cnSeen = {}
    /\ ret = PyNone

\* the subsets of S of at most k elements
RECURSIVE SubsetsUpTo(_, _)
SubsetsUpTo(S, k) ==
    IF k = 0 THEN { {} }
    ELSE LET smaller == SubsetsUpTo(S, k - 1)
         IN  smaller \cup { T \cup {x} : T \in smaller, x \in S }

\* the sequences over S of at most k elements
RECURSIVE SeqsUpTo(_, _)
SeqsUpTo(S, k) ==
    IF k = 0 THEN { << >> }
    ELSE LET shorter == SeqsUpTo(S, k - 1)
         IN  shorter \cup { Append(q, x) : q \in shorter, x \in S }

(* ---- IPInfo.from_dict, is_cn and is_filter_domain ---- *)

NamePrefixes == { << >>, <<"X">>, <<"C", "h", "i", "n", "a", " ">> }
NameSuffixes == { << >>, <<"X">>, <<" ">> \o S_Telecom }
\* the first, a middle and the last keyword, and two words that are none
NameCores ==
    { AS_NAME_KEYWORDS[1], AS_NAME_KEYWORDS[4],
      AS_NAME_KEYWORDS[Len(AS_NAME_KEYWORDS)], S_Telecom, S_NoProvinceISP }

AsNames ==
    UNION { { a \o c \o b, a \o lower(c) \o b, a \o upper(c) \o b } :
              a \in NamePrefixes, c \in NameCores, b \in NameSuffixes }

ClassifyRecords ==
    { NotADict } \cup
    { MkRecord(cc, d, nm) :
        cc \in CountryCodes,
        d \in { Absent, EmptyStr, AnInt, AList,
                Str(S_qq), Str(upper(S_qq)),
                Str(S_chinatelecom), Str(upper(S_chinatelecom)),
                Str(S_chinatelecom_com), Str(S_example) },
        nm \in { Absent, AnInt } \cup { Str(a) : a \in AsNames } }

InitClassify ==
    /\ pc = "call"
    /\ call \in { [fn |-> "IPInfo", record |-> r] : r \in ClassifyRecords }
    /\ fs = EmptyDict
    /\ Idle

\* IPInfo.from_dict(record), then is_cn() and is_filter_domain() of it
Classify ==
    /\ pc = "call"
    /\ call.fn = "IPInfo"
    /\ ret' =
         IF from_dict_raises(call.record)
         THEN [raised |-> TRUE, is_cn |-> FALSE, is_filter_domain |-> FALSE]
         ELSE LET ip == from_dict(call.record) IN
              IF is_filter_domain_raises(ip)
              THEN [raised |-> TRUE, is_cn |-> is_cn(ip), is_filter_domain |-> FALSE]
              ELSE [raised |-> FALSE, is_cn |-> is_cn(ip),
                    is_filter_domain |-> is_filter_domain(ip)]
    /\ pc' = "return"
    /\ UNCHANGED << nread, network, record, countries, domains, fs, vi, idx,
                    failed, log, cnSeen, call >>

SpecClassify == InitClassify /\ [][Classify]_vars

(* ---- ipaddress.collapse_addresses ---- *)

InitCollapse ==
    /\ pc = "call"
    /\ call \in { [fn |-> "collapse_addresses", networks |-> S] :
                    S \in UNION { SubsetsUpTo(NetworksOf(v), MaxSet) : v \in Versions } }
    /\ fs = EmptyDict
    /\ Idle

\* collapse_addresses(networks), the set iterated in any order
Collapse ==
    /\ pc = "call"
    /\ call.fn = "collapse_addresses"
    /\ \E order \in Orders(call.networks) : ret' = collapse_addresses(order)
    /\ pc' = "return"
    /\ UNCHANGED << nread, network, record, countries, domains, fs, vi, idx,
                    failed, log, cnSeen, call >>

SpecCollapse == InitCollapse /\ [][Collapse]_vars

(* ---- save_zone_file ---- *)

SomeZoneFile == zone_path("countries", "ipv4", S_cn)

\* what the file holds before the call: nothing (no file), or old lines
OldContents ==
    { << >>,
      << format_net(Net(4, 0, 0)) >>,
      << format_net(Net(4, 0, 0)), format_net(Net(6, 0, 0)) >> }

InitSave ==
    /\ pc = "call"
    /\ \E exists \in BOOLEAN, old \in OldContents,
          networks \in SeqsUpTo(NetworksOf(4), MaxSeq) :
         /\ exists \/ old = << >>
         /\ fs = IF exists THEN (SomeZoneFile :> old) ELSE EmptyDict
         /\ call = [fn |-> "save_zone_file", zone_file |-> SomeZoneFile,
                    networks |-> networks, before |-> fs]
    /\ Idle

Save ==
    /\ pc = "call"
    /\ call.fn = "save_zone_file"
    /\ LET r == save_zone_file(fs, call.zone_file, call.networks) IN
         /\ fs' = r.fs
         /\ log' = r.log
         /\ ret' = r.ret
    /\ pc' = "return"
    /\ UNCHANGED << nread, network, record, countries, domains, vi, idx, failed,
                    cnSeen, call >>

\* the directory or the file cannot be made: the exception leaves the call
SaveRaises ==
    /\ pc = "call"
    /\ call.fn = "save_zone_file"
    /\ pc' = "raised"
    /\ failed' = failed \cup { call.zone_file }
    /\ UNCHANGED << nread, network, record, countries, domains, fs, vi, idx, log,
                    cnSeen, call, ret >>

NextSave == Save \/ SaveRaises

SpecSave == InitSave /\ [][NextSave]_vars

(***************************************************************************)
(* The properties.                                                         *)
(***************************************************************************)
AllNetworks == UNION { NetworksOf(v) : v \in Versions }

\* the networks of groups[key][ipv], none when the key or the version is new
Group(groups, key, ipv) ==
    IF key \in DOMAIN groups.val /\ ipv \in DOMAIN groups.val[key]
    THEN groups.val[key][ipv] ELSE {}

\* the addresses covered by a set of networks
Cover(S) == UNION { Addresses(n) : n \in S }

Range(q) == { q[i] : i \in DOMAIN q }

Lines(networks) == [i \in DOMAIN networks |-> format_net(networks[i])]

GroupsUntouched == countries' = countries /\ domains' = domains

(* ---- C1 ---- *)

C1_CountryGroups ==
    /\ \A net \in AllNetworks :
         net \in Group(countries, lower(S_CN), ipv_of(net)) <=> net \in cnSeen
    /\ \A key \in DOMAIN countries.val : \A ipv \in DOMAIN countries.val[key] :
         \A net \in countries.val[key][ipv] : key = lower(S_CN) /\ ipv = ipv_of(net)

C1_OtherCodeAddsNothing ==
    (pc = "body" /\ ~CarriesCN(record)) => GroupsUntouched

\* C1: at every point of the scan a well-formed network is in the country
\* group keyed by (lower-case "CN", its version) exactly when a record read
\* so far carried it with country_code "CN", no network is in any other
\* country group, and the loop body on a record whose country_code is not
\* exactly "CN" changes no country group and no domain group.
C1_CountryGroupIffCN == []C1_CountryGroups /\ [][C1_OtherCodeAddsNothing]_vars

\* C1: two records read, one of them a "CN" record whose network is in the
\* country group, the other one adding nothing.
C1_Witness ==
    /\ pc = "scan"
    /\ nread = 2
    /\ cnSeen = { Net(4, 0, 1) }
    /\ Group(countries, S_cn, "ipv4") = cnSeen
    /\ domains = EmptyGroups

(* ---- C2 ---- *)

StringFields(r) ==
    /\ r.t = "dict"
    /\ \A k \in DOMAIN r.items : r.items[k].t = "str"

\* C2: for a record whose fields are strings, is_filter_domain is true
\* exactly when as_domain is non-empty, the rule table has an entry for the
\* lower-cased as_domain, the entry's is_filter is true, and its use_as_name
\* is false or the pattern matches as_name.
C2_LookupIsLowercased ==
    (pc = "return" /\ StringFields(call.record)) =>
        LET ip == from_dict(call.record)
            d == lower(ip.as_domain.s)
        IN  ret.is_filter_domain <=>
              /\ ip.as_domain.s # << >>
              /\ d \in DOMAIN AS_DOMAIN_KV
              /\ AS_DOMAIN_KV[d].is_filter
              /\ \/ ~AS_DOMAIN_KV[d].use_as_name
                 \/ regex_search(REGEX_AS_NAME, ip.as_name.s)

(* ---- C3 ---- *)

\* a keyword occurs in text, ignoring case, with a word boundary on each side
KeywordDelimited(text) ==
    \E k \in DOMAIN AS_NAME_KEYWORDS : \E pos \in 1..(Len(text) + 1) :
        /\ word_boundary(text, pos)
        /\ literal_at(text, pos, AS_NAME_KEYWORDS[k])
        /\ word_boundary(text, pos + Len(AS_NAME_KEYWORDS[k]))

\* C3: for a record whose fields are strings and whose as_domain has a rule
\* with use_as_name, is_filter_domain is true exactly when as_name holds a
\* keyword, ignoring case, between two word boundaries.
C3_KeywordBetweenBoundaries ==
    (pc = "return" /\ StringFields(call.record)) =>
        LET ip == from_dict(call.record) IN
        (/\ ip.as_domain.s \in DOMAIN AS_DOMAIN_KV
         /\ AS_DOMAIN_KV[ip.as_domain.s].is_filter
         /\ AS_DOMAIN_KV[ip.as_domain.s].use_as_name)
        => (ret.is_filter_domain <=> KeywordDelimited(ip.as_name.s))

(* ---- C4 ---- *)

\* C4: the loop body on a pair whose network key does not parse, or for
\* which an exception is raised, leaves the country groups and the domain
\* groups as they were.
C4_RaisingRecordSkipped ==
    [][(pc = "body" /\ (ip_network_raises(network) \/ scan_raises(network, record)))
          => GroupsUntouched]_vars

(* ---- C5 ---- *)

AggregatedPaths ==
    { zone_path("domains", ip_versions[i], S_aggregated) : i \in DOMAIN ip_versions }

\* the files a run writes when nothing fails
ExpectedPaths ==
    UNION { UNION { { zone_path("countries", ipv, c) : ipv \in DOMAIN countries.val[c] } :
                c \in DOMAIN countries.val },
            UNION { { zone_path("domains", ipv, d) : ipv \in DOMAIN domains.val[d] } :
                d \in DOMAIN domains.val },
            AggregatedPaths }

\* C5: when extract_ip_networks is over and the only failures were of zone
\* files of group keys, every other file of the run has been written.
C5_OtherKeysStillWritten ==
    (pc \in {"done", "aborted"} /\ failed \cap AggregatedPaths = {}) =>
        \A path \in ExpectedPaths : path \in failed \/ path \in DOMAIN fs

(* ---- C6 ---- *)

\* the lines of the per-domain files of version v, from the i-th domain key on
RECURSIVE ConcatDomainFiles(_, _)
ConcatDomainFiles(v, i) ==
    IF i > Len(domains.keys) THEN << >>
    ELSE IF v \in DOMAIN domains.val[domains.keys[i]]
         THEN fs[zone_path("domains", v, domains.keys[i])] \o ConcatDomainFiles(v, i + 1)
         ELSE ConcatDomainFiles(v, i + 1)

\* the text of an address of the version named v
AddressText(v) == IF v = "ipv4" THEN "dotted" ELSE "colons"

\* C6: the aggregated file of a version is empty when the version's domain
\* pass begins, and after a completed run it holds the lines of the
\* per-domain files of that version, in the order of the domain keys, and
\* only addresses of that version.
C6_AggregatedIsConcatenation ==
    /\ (pc = "domains" /\ idx = 1) => fs[domain_aggregated_file] = << >>
    /\ pc = "done" =>
         \A i \in DOMAIN ip_versions :
            LET v == ip_versions[i]
                agg == fs[zone_path("domains", v, S_aggregated)]
            IN  /\ agg = ConcatDomainFiles(v, 1)
                /\ \A k \in DOMAIN agg : agg[k][1] = AddressText(v)
                /\ \A d \in DOMAIN domains.val :
                      zone_path("domains", v, d) \in DOMAIN fs
                          <=> v \in DOMAIN domains.val[d]

\* C6: a completed run with two domains of IPv4 networks, one of them with
\* IPv6 networks too.
C6_Witness ==
    /\ pc = "done"
    /\ Len(domains.keys) = 2
    /\ \A d \in DOMAIN domains.val : "ipv4" \in DOMAIN domains.val[d]
    /\ \E d \in DOMAIN domains.val : "ipv6" \in DOMAIN domains.val[d]
    /\ Len(fs[zone_path("domains", "ipv4", S_aggregated)]) = 2
    /\ Len(fs[zone_path("domains", "ipv6", S_aggregated)]) = 1

(* ---- C7 ---- *)

\* C7: the collapsed sequence covers exactly the addresses of the set, with
\* networks of the set's version.
C7_CollapseKeepsAddresses ==
    pc = "return" =>
        /\ Cover(Range(ret)) = Cover(call.networks)
        /\ \A n \in Range(ret) : \E m \in call.networks : n.version = m.version

\* C7: three networks collapsed into one block that is none of them.
C7_Witness ==
    /\ pc = "return"
    /\ Cardinality(call.networks) = 3
    /\ Len(ret) = 1
    /\ ret[1] \notin call.networks

(* ---- C8 ---- *)

\* two halves of a common parent of one-shorter prefix
Siblings(a, b) == a # b /\ a.plen = b.plen /\ a.plen > 0 /\ supernet(a) = supernet(b)

\* C8: in the collapsed sequence no block overlaps another, no two blocks
\* are the halves of a common parent, the base addresses ascend strictly,
\* and collapsing the sequence again gives the sequence.
C8_CollapseIsFixedPoint ==
    pc = "return" =>
        /\ \A i, j \in DOMAIN ret :
             i # j => /\ Addresses(ret[i]) \cap Addresses(ret[j]) = {}
                      /\ ~Siblings(ret[i], ret[j])
        /\ \A i \in DOMAIN ret : i < Len(ret) => ret[i].addr < ret[i + 1].addr
        /\ collapse_addresses(ret) = ret

\* C8: a set in which one network lies inside another, collapsed to more
\* than one block.
C8_Witness ==
    /\ pc = "return"
    /\ Len(ret) >= 2
    /\ \E a, b \in call.networks : a # b /\ Addresses(a) \subseteq Addresses(b)

(* ---- C9 ---- *)

\* C9, as stated: save_zone_file writes one line per network in the order
\* given, over any old content, and returns the number of lines.
C9_ReturnsCount ==
    pc = "return" =>
        /\ fs[call.zone_file] = Lines(call.networks)
        /\ ret = PyInt(Len(call.networks))

\* C9, amended: save_zone_file writes one line per network in the order
\* given, over any old content, logs the number of lines, and returns None.
C9_LogsCountReturnsNone ==
    pc = "return" =>
        /\ fs[call.zone_file] = Lines(call.networks)
        /\ DOMAIN fs = {call.zone_file}
        /\ log = [count |-> Len(call.networks), zone_file |-> call.zone_file]
        /\ ret = PyNone

\* C9: a file with old lines overwritten by two networks given in descending
\* order.
C9_Witness ==
    /\ pc = "return"
    /\ call.zone_file \in DOMAIN call.before
    /\ Len(call.before[call.zone_file]) = 2
    /\ Len(call.networks) = 2
    /\ net_lt(call.networks[2], call.networks[1])

(* ---- C10 ---- *)

C10_DomainsInsideCountry ==
    \A d \in DOMAIN domains.val : \A ipv \in DOMAIN domains.val[d] :
        domains.val[d][ipv] \subseteq Group(countries, S_cn, ipv)

Grows(groups, groups2) ==
    \A key \in DOMAIN groups.val : \A ipv \in DOMAIN groups.val[key] :
        groups.val[key][ipv] \subseteq Group(groups2, key, ipv)

\* C10: every network of a domain group of a version is in the group "cn"
\* of that version, and no step, of the scan or of the output phase, takes a
\* network out of a group.
C10_DomainSubsetAndGrowth ==
    []C10_DomainsInsideCountry /\ [][Grows(countries, countries') /\ Grows(domains, domains')]_vars

\* C10: a domain group with a network, inside a country group with more.
C10_Witness ==
    /\ \E d \in DOMAIN domains.val : Group(domains, d, "ipv4") # {}
    /\ \A d \in DOMAIN domains.val : Cardinality(Group(domains, d, "ipv4")) <= 1
    /\ Cardinality(Group(countries, S_cn, "ipv4")) >= 2

=============================================================================
